---- MODULE Spec2Model ----
(***************************************************************************)
(* The animation engine of ismael1361/utils: the Controller returned by    *)
(* create(), the frame loop it schedules, and the generator coroutines     *)
(* (timing, wait, parallel, all, any, chain, sequence, stagger, loop) it   *)
(* drives over a SharedValues group.                                       *)
(*                                                                         *)
(* A generator is a record with a pc naming the yield it is suspended at.  *)
(* Step(co, in, vals) is one call of co.next(in): it runs the body from    *)
(* that yield to the next one (or to the return / throw) and gives back    *)
(* the new generator, whether it is done, whether it threw, the group's    *)
(* values after the writes it made, and the children it resumed.           *)
(* As in JavaScript, the argument of the first next() is discarded: a      *)
(* generator at pc "start" runs to its first yield without reading `in`.   *)
(***************************************************************************)
EXTENDS Integers, Sequences, FiniteSets, TLC

\* ---------------------------------------------------------------- bounds
MaxTime == 3          \* Date.now() runs over 0..MaxTime
MaxStep == 2          \* the clock advances by 1..MaxStep between events
MaxPending == 2       \* at most this many frame requests are pending
MaxClear == 2         \* at most this many cleanup callbacks are registered
Slack == 3            \* frames counted past a deadline (the count saturates above)
MaxEdges == 4         \* at most this many edges are stored in a Graph
Horizon == 500        \* a fallback-timer run is followed this long after start()
MaxSubs == 3          \* a caller holds at most this many subscriptions to one
                      \* event of a plain emitter
MaxListeners == 1     \* a caller subscribes at most this many listeners to one
                      \* event of one emitter

\* ------------------------------------------------------- numbers (exact)
\* A JavaScript number is modelled as an exact fraction n/d in lowest terms.
Abs(i) == IF i < 0 THEN 0 - i ELSE i

RECURSIVE GCD(_, _)
GCD(a, b) == IF b = 0 THEN a ELSE GCD(b, a % b)

Rat(n, d) ==
    LET g == GCD(Abs(n), Abs(d))
        s == IF d < 0 THEN 0 - 1 ELSE 1
    IN  [t |-> "number", n |-> (s * n) \div g, d |-> (s * d) \div g]

Num(i) == Rat(i, 1)
RatAdd(a, b) == Rat(a.n * b.d + b.n * a.d, a.d * b.d)
RatSub(a, b) == Rat(a.n * b.d - b.n * a.d, a.d * b.d)
RatMul(a, b) == Rat(a.n * b.n, a.d * b.d)
RatGeq(a, b) == a.n * b.d >= b.n * a.d

\* String(value): the decimal text of a number is determined by its value and
\* does not show the JavaScript type of what was stored.
String(v) == <<v.n, v.d>>

\* ------------------------------------------------------------ SharedValue
Keys == {"x", "y"}
InitialValues == [k \in Keys |-> Num(0)]

\* set value(value): the write is dropped when the texts are equal.
SetValue(vals, key, v) ==
    IF String(v) = String(vals[key]) THEN vals ELSE [vals EXCEPT ![key] = v]

\* The keys in the order of `for (const key in values)`.
KeySeq == <<"x", "y">>

\* SharedValues.clear(): every child is assigned its initial value.
valuesClear(vals) ==
    LET keySeq == <<"x", "y">>
        clr[i \in 0..Len(keySeq)] ==
            IF i = 0 THEN vals
            ELSE SetValue(clr[i - 1], keySeq[i], InitialValues[keySeq[i]])
    IN  clr[Len(keySeq)]

\* ------------------------------------------------------------- coroutines
NULL == [kind |-> "null"]

\* A generator that has returned or thrown: every later next() is {done: true}.
Finished(co) == [co EXCEPT !.pc = "done"]

\* reg: the callbacks the resumption handed to onClear, in call order.
Res(co, done, threw, vals, log) ==
    [co |-> co, done |-> done, threw |-> threw, vals |-> vals, log |-> log,
     reg |-> <<>>]

WithReg(res, reg) == [res EXCEPT !.reg = reg]

\* Descriptors of the coroutines a program is built from.
Yielder(k) == [kind |-> "yielder", k |-> k]
Thrower(k) == [kind |-> "thrower", k |-> k]
\* A user generator `while ((yield).deltaTime >= budget);`: it waits for a
\* frame that came within the budget.
UntilFrameWithin(budget) == [kind |-> "untilFrameWithin", budget |-> budget]
Wait(duration) == [kind |-> "wait", duration |-> duration]
Timing(key, to, delay, duration) ==
    [kind |-> "timing", key |-> key, to |-> to, delay |-> delay, duration |-> duration]
\* timing(value, {from, to, delay, duration}): the caller supplies `from`.
TimingFrom(key, from, to, delay, duration) ==
    [kind |-> "timing", key |-> key, from |-> from, to |-> to, delay |-> delay,
     duration |-> duration]
\* timing on a callback target: the callback is (val) => val >= threshold.
TimingCallback(threshold, from, to, delay, duration) ==
    [kind |-> "timingCallback", threshold |-> threshold, from |-> from, to |-> to,
     delay |-> delay, duration |-> duration]
Registrar(cb, k) == [kind |-> "registrar", cb |-> cb, k |-> k]
ParallelOf(children) == [kind |-> "parallel", children |-> children]
StaggerOf(delayMs, children) ==
    [kind |-> "stagger", delayMs |-> delayMs, children |-> children]
\* all(...animations) is `yield* parallel(...animations)`.
AllOf(children) == ParallelOf(children)
ChainOf(children) == [kind |-> "chain", children |-> children]
LoopOf(iterations, factory) ==
    [kind |-> "loop", iterations |-> iterations, factory |-> factory]
SequenceOf(delayMs, children) ==
    [kind |-> "sequence", delayMs |-> delayMs, children |-> children]
AnyOf(children) == [kind |-> "any", children |-> children]

\* materializeGenerator: a fresh generator object, no body code run yet.
\* The factories handed to loop: the one of the test suite, whose generator
\* animates x to i + 1 in 1 ms, and one whose generator returns at once.
Factory(f, i) ==
    IF f = "timing" THEN Timing("x", i + 1, 0, 1)
    ELSE IF f = "timing100" THEN Timing("x", i + 1, 0, 100)
    ELSE Yielder(0)

\* A wait(duration) that has not been resumed yet.
waitState(duration) ==
    [kind |-> "wait", pc |-> "start", duration |-> duration, from |-> 0,
     current |-> 0]

RECURSIVE materializeGenerator(_)

\* animations.map((input) => materializeGenerator(input))
materializeAll(children) ==
    [i \in 1..Len(children) |-> materializeGenerator(children[i])]

materializeGenerator(desc) ==
    CASE desc.kind \in {"yielder", "thrower"} ->
            [kind |-> desc.kind, pc |-> "start", left |-> desc.k]
      [] desc.kind = "untilFrameWithin" ->
            [kind |-> "untilFrameWithin", pc |-> "start", budget |-> desc.budget]
      [] desc.kind = "registrar" ->
            [kind |-> "registrar", pc |-> "start", cb |-> desc.cb, left |-> desc.k]
      [] desc.kind = "stagger" ->
            \* stagger is `yield* parallel(...iterators)` over the wrappers
            \* function*(){ yield* wait(delayMs * index); yield* input }
            [kind |-> "parallel", pc |-> "start",
             iterators |-> [i \in 1..Len(desc.children) |->
                 [kind |-> "staggerItem", pc |-> "start",
                  w |-> waitState(desc.delayMs * (i - 1)),
                  c |-> materializeAll(desc.children)[i]]],
             idx |-> 1, done |-> <<>>, timeSinceFirstFrame |-> 0]
      [] desc.kind = "loop" ->
            [kind |-> "loop", pc |-> "start", iterations |-> desc.iterations,
             factory |-> desc.factory, i |-> 0, cur |-> NULL]
      [] desc.kind = "sequence" ->
            [kind |-> "sequence", pc |-> "start", delayMs |-> desc.delayMs,
             iterators |-> materializeAll(desc.children),
             idx |-> 1, phase |-> "child",
             w |-> waitState(desc.delayMs)]
      [] desc.kind = "chain" ->
            [kind |-> "chain", pc |-> "start",
             iterators |-> materializeAll(desc.children),
             idx |-> 1]
      [] desc.kind = "wait" ->
            [kind |-> "wait", pc |-> "start", duration |-> desc.duration,
             from |-> 0, current |-> 0]
      [] desc.kind = "timing" ->
            [kind |-> "timing", pc |-> "start", key |-> desc.key,
             to |-> Num(desc.to), delay |-> desc.delay, duration |-> desc.duration,
             from |-> IF "from" \in DOMAIN desc THEN Num(desc.from) ELSE Num(0),
             start |-> 0, current |-> 0,
             w |-> waitState(desc.delay)]
      [] desc.kind = "timingCallback" ->
            [kind |-> "timingCallback", pc |-> "start",
             threshold |-> Num(desc.threshold), from |-> Num(desc.from),
             to |-> Num(desc.to), delay |-> desc.delay, duration |-> desc.duration,
             start |-> 0, current |-> 0,
             w |-> waitState(desc.delay)]
      [] desc.kind \in {"parallel", "any"} ->
            [kind |-> desc.kind, pc |-> "start",
             iterators |-> materializeAll(desc.children),
             idx |-> 0, done |-> <<>>, timeSinceFirstFrame |-> 0]

\* A user generator `for (i < k) yield;` and one that throws after k yields.
userStep(co, vals) ==
    IF co.left > 0
    THEN Res([co EXCEPT !.pc = "run", !.left = @ - 1], FALSE, FALSE, vals, <<>>)
    ELSE Res(Finished(co), co.kind = "yielder", co.kind = "thrower", vals, <<>>)

untilFrameWithin(co, in, vals) ==
    IF co.pc = "start" \/ in.deltaTime >= co.budget
    THEN Res([co EXCEPT !.pc = "run"], FALSE, FALSE, vals, <<>>)
    ELSE Res(Finished(co), TRUE, FALSE, vals, <<>>)

\* A user generator `const {onClear} = yield; onClear(cb); for (i < k) yield;`.
registrarStep(co, vals) ==
    CASE co.pc = "start" ->
            Res([co EXCEPT !.pc = "r0"], FALSE, FALSE, vals, <<>>)
      [] co.pc = "r0" ->
            WithReg(IF co.left > 0
                    THEN Res([co EXCEPT !.pc = "run", !.left = @ - 1],
                             FALSE, FALSE, vals, <<>>)
                    ELSE Res(Finished(co), TRUE, FALSE, vals, <<>>),
                    <<co.cb>>)
      [] co.pc = "run" ->
            IF co.left > 0
            THEN Res([co EXCEPT !.left = @ - 1], FALSE, FALSE, vals, <<>>)
            ELSE Res(Finished(co), TRUE, FALSE, vals, <<>>)

\* wait with `if` in the place of `for`: one frame after `from` and it is over.
waitSingleFrame(co, in, vals) ==
    CASE co.pc = "start" ->
            Res([co EXCEPT !.pc = "w0"], FALSE, FALSE, vals, <<>>)
      [] co.pc = "w0" ->
            IF in.deltaTime < in.deltaTime + co.duration
            THEN Res([co EXCEPT !.pc = "w1", !.from = in.deltaTime,
                                !.current = in.deltaTime], FALSE, FALSE, vals, <<>>)
            ELSE Res(Finished(co), TRUE, FALSE, vals, <<>>)
      [] co.pc = "w1" -> Res(Finished(co), TRUE, FALSE, vals, <<>>)

\* wait(duration): the first deltaTime received is `from`; every later one is
\* added to `current` until current >= from + duration.
wait(co, in, vals) ==
    CASE co.pc = "start" ->
            Res([co EXCEPT !.pc = "w0"], FALSE, FALSE, vals, <<>>)
      [] co.pc = "w0" ->
            IF in.deltaTime < in.deltaTime + co.duration
            THEN Res([co EXCEPT !.pc = "w1", !.from = in.deltaTime,
                                !.current = in.deltaTime], FALSE, FALSE, vals, <<>>)
            ELSE Res(Finished(co), TRUE, FALSE, vals, <<>>)
      [] co.pc = "w1" ->
            LET current == co.current + in.deltaTime IN
            IF current < co.from + co.duration
            THEN Res([co EXCEPT !.current = current], FALSE, FALSE, vals, <<>>)
            ELSE Res(Finished(co), TRUE, FALSE, vals, <<>>)

\* timingLoop without the final write of `to`.
timingLoopNoSnap(co, current, vals) ==
    IF current < co.start + co.duration
    THEN LET progress == Rat(current - co.start, co.duration)
             val == RatAdd(co.from, RatMul(RatSub(co.to, co.from), progress))
         IN  Res([co EXCEPT !.pc = "t1", !.current = current], FALSE, FALSE,
                 SetValue(vals, co.key, val), <<>>)
    ELSE Res(Finished(co), TRUE, FALSE, vals, <<>>)

\* The for loop of timing, entered with `current`: one in-range write and a
\* yield, or the final write of `to` and the return.
timingLoop(co, current, vals) ==
    IF current < co.start + co.duration
    THEN LET progress == Rat(current - co.start, co.duration)
             val == RatAdd(co.from, RatMul(RatSub(co.to, co.from), progress))
         IN  Res([co EXCEPT !.pc = "t1", !.current = current], FALSE, FALSE,
                 SetValue(vals, co.key, val), <<>>)
    ELSE Res(Finished(co), TRUE, FALSE, SetValue(vals, co.key, co.to), <<>>)

\* timing(value, config) on a SharedValue target.
timing(co, in, vals) ==
    CASE co.pc = "start" ->
            \* config.from = value.value; yield* wait(delay) runs to its yield
            Res([co EXCEPT !.pc = "delay", !.from = vals[co.key],
                           !.w = wait(co.w, in, vals).co], FALSE, FALSE, vals, <<>>)
      [] co.pc = "delay" ->
            LET r == wait(co.w, in, vals) IN
            IF r.done
            THEN Res([co EXCEPT !.pc = "t0", !.w = r.co], FALSE, FALSE, vals, <<>>)
            ELSE Res([co EXCEPT !.w = r.co], FALSE, FALSE, vals, <<>>)
      [] co.pc = "t0" ->
            timingLoop([co EXCEPT !.start = in.deltaTime], in.deltaTime, vals)
      [] co.pc = "t1" ->
            timingLoop(co, co.current + in.deltaTime, vals)

\* from + (to - from) * (elapsed / duration) over exact fractions, brought to
\* one fraction.
interpolate(from, to, elapsed, duration) ==
    Rat(from.n * to.d * duration + (to.n * from.d - from.n * to.d) * elapsed,
        from.d * to.d * duration)

\* One call value(val) of the callback target: what it was called with,
\* what it returned, and whether it is the call after the loop (line 183).
callback(threshold, val, final) ==
    [val |-> val, ret |-> RatGeq(val, threshold), final |-> final]

\* What follows the intermediate call when a truthy return is treated as a
\* falsy one.
afterCallbackNoBreak(co, current, val, vals) ==
    Res([co EXCEPT !.pc = "t1", !.current = current], FALSE, FALSE, vals,
        <<callback(co.threshold, val, FALSE)>>)

\* What follows the intermediate call value(val): after a falsy return a
\* yield; after a truthy one no yield, the break, the call with `to` and the
\* return.
afterCallback(co, current, val, vals) ==
    IF RatGeq(val, co.threshold)
    THEN Res(Finished(co), TRUE, FALSE, vals,
             <<callback(co.threshold, val, FALSE), callback(co.threshold, co.to, TRUE)>>)
    ELSE Res([co EXCEPT !.pc = "t1", !.current = current], FALSE, FALSE, vals,
             <<callback(co.threshold, val, FALSE)>>)

\* The for loop of timing on a callback target, entered with `current`: one
\* intermediate call, or (current past the end) the call with `to` and the
\* return.
timingCallbackLoop(co, current, vals) ==
    IF current < co.start + co.duration
    THEN afterCallback(co, current,
                       interpolate(co.from, co.to, current - co.start, co.duration),
                       vals)
    ELSE Res(Finished(co), TRUE, FALSE, vals,
             <<callback(co.threshold, co.to, TRUE)>>)

\* timing(value, config) on a callback target.
timingCallback(co, in, vals) ==
    CASE co.pc = "start" ->
            Res([co EXCEPT !.pc = "delay", !.w = wait(co.w, in, vals).co],
                FALSE, FALSE, vals, <<>>)
      [] co.pc = "delay" ->
            IF wait(co.w, in, vals).done
            THEN Res([co EXCEPT !.pc = "t0"], FALSE, FALSE, vals, <<>>)
            ELSE Res([co EXCEPT !.w = wait(co.w, in, vals).co],
                     FALSE, FALSE, vals, <<>>)
      [] co.pc = "t0" ->
            timingCallbackLoop([co EXCEPT !.start = in.deltaTime], in.deltaTime, vals)
      [] co.pc = "t1" ->
            timingCallbackLoop(co, co.current + in.deltaTime, vals)

RECURSIVE Step(_, _, _)

\* iterator.next(in) on a child generator.
next(co, in, vals) == Step(co, in, vals)

\* parallel with done.some in the place of done.every.
parallelSome(co, in, vals) ==
    CASE co.pc = "start" ->
            IF Len(co.iterators) = 0
            THEN Res(Finished(co), TRUE, FALSE, vals, <<>>)
            ELSE Res([co EXCEPT !.pc = "child", !.idx = 1, !.done = <<>>],
                     FALSE, FALSE, vals, <<>>)
      [] co.pc = "child" ->
            LET r == next(co.iterators[co.idx],
                          [in EXCEPT !.deltaTime = co.timeSinceFirstFrame], vals)
                co1 == [co EXCEPT !.iterators[co.idx] = r.co,
                                  !.done = Append(@, r.done)]
            IN  WithReg(
                IF r.threw
                THEN Res(Finished(co1), FALSE, TRUE, r.vals, <<co.idx>>)
                ELSE IF co.idx < Len(co.iterators)
                THEN Res([co1 EXCEPT !.idx = @ + 1], FALSE, FALSE, r.vals, <<co.idx>>)
                ELSE IF \E i \in 1..Len(co1.done) : co1.done[i]
                THEN Res(Finished(co1), TRUE, FALSE, r.vals, <<co.idx>>)
                ELSE Res([co1 EXCEPT !.pc = "frame"], FALSE, FALSE, r.vals, <<co.idx>>),
                r.reg)
      [] co.pc = "frame" ->
            Res([co EXCEPT !.pc = "child", !.idx = 1, !.done = <<>>,
                           !.timeSinceFirstFrame = in.deltaTime],
                FALSE, FALSE, vals, <<>>)

\* parallel(...animations): suspended either at the yield inside the call
\* iterator.next({...(yield), deltaTime}) of child idx (pc "child") or at the
\* yield that reads timeSinceFirstFrame after a round (pc "frame").
parallel(co, in, vals) ==
    CASE co.pc = "start" ->
            IF Len(co.iterators) = 0
            THEN Res(Finished(co), TRUE, FALSE, vals, <<>>)
            ELSE Res([co EXCEPT !.pc = "child", !.idx = 1, !.done = <<>>],
                     FALSE, FALSE, vals, <<>>)
      [] co.pc = "child" ->
            LET r == next(co.iterators[co.idx],
                          [in EXCEPT !.deltaTime = co.timeSinceFirstFrame], vals)
                co1 == [co EXCEPT !.iterators[co.idx] = r.co,
                                  !.done = Append(@, r.done)]
            IN  WithReg(
                IF r.threw
                THEN Res(Finished(co1), FALSE, TRUE, r.vals, <<co.idx>>)
                ELSE IF co.idx < Len(co.iterators)
                THEN Res([co1 EXCEPT !.idx = @ + 1], FALSE, FALSE, r.vals, <<co.idx>>)
                ELSE IF \A i \in 1..Len(co1.done) : co1.done[i]
                THEN Res(Finished(co1), TRUE, FALSE, r.vals, <<co.idx>>)
                ELSE Res([co1 EXCEPT !.pc = "frame"], FALSE, FALSE, r.vals, <<co.idx>>),
                r.reg)
      [] co.pc = "frame" ->
            Res([co EXCEPT !.pc = "child", !.idx = 1, !.done = <<>>,
                           !.timeSinceFirstFrame = in.deltaTime],
                FALSE, FALSE, vals, <<>>)

\* any that calls return() on every child when it completes.
anyReturnsLosers(co, in, vals) ==
    CASE co.pc = "start" ->
            IF Len(co.iterators) = 0
            THEN Res([co EXCEPT !.pc = "frame"], FALSE, FALSE, vals, <<>>)
            ELSE Res([co EXCEPT !.pc = "child", !.idx = 1], FALSE, FALSE, vals, <<>>)
      [] co.pc = "child" ->
            LET r == next(co.iterators[co.idx],
                          [in EXCEPT !.deltaTime = co.timeSinceFirstFrame], vals)
                co1 == [co EXCEPT !.iterators[co.idx] = r.co]
            IN  WithReg(
                IF r.threw
                THEN Res(Finished(co1), FALSE, TRUE, r.vals, <<co.idx>>)
                ELSE IF r.done
                THEN Res(Finished([co1 EXCEPT !.iterators =
                                      [i \in 1..Len(@) |-> Finished(@[i])]]),
                         TRUE, FALSE, r.vals, <<co.idx>>)
                ELSE IF co.idx < Len(co.iterators)
                THEN Res([co1 EXCEPT !.idx = @ + 1], FALSE, FALSE, r.vals, <<co.idx>>)
                ELSE Res([co1 EXCEPT !.pc = "frame"], FALSE, FALSE, r.vals, <<co.idx>>),
                r.reg)
      [] co.pc = "frame" ->
            IF Len(co.iterators) = 0
            THEN Res([co EXCEPT !.timeSinceFirstFrame = in.deltaTime],
                     FALSE, FALSE, vals, <<>>)
            ELSE Res([co EXCEPT !.pc = "child", !.idx = 1,
                                !.timeSinceFirstFrame = in.deltaTime],
                     FALSE, FALSE, vals, <<>>)

\* any(...animations): as parallel, but the round and the generator end at
\* the first child whose next() reports done.
any(co, in, vals) ==
    CASE co.pc = "start" ->
            IF Len(co.iterators) = 0
            THEN Res([co EXCEPT !.pc = "frame"], FALSE, FALSE, vals, <<>>)
            ELSE Res([co EXCEPT !.pc = "child", !.idx = 1], FALSE, FALSE, vals, <<>>)
      [] co.pc = "child" ->
            LET r == next(co.iterators[co.idx],
                          [in EXCEPT !.deltaTime = co.timeSinceFirstFrame], vals)
                co1 == [co EXCEPT !.iterators[co.idx] = r.co]
            IN  WithReg(
                IF r.threw
                THEN Res(Finished(co1), FALSE, TRUE, r.vals, <<co.idx>>)
                ELSE IF r.done
                THEN Res(Finished(co1), TRUE, FALSE, r.vals, <<co.idx>>)
                ELSE IF co.idx < Len(co.iterators)
                THEN Res([co1 EXCEPT !.idx = @ + 1], FALSE, FALSE, r.vals, <<co.idx>>)
                ELSE Res([co1 EXCEPT !.pc = "frame"], FALSE, FALSE, r.vals, <<co.idx>>),
                r.reg)
      [] co.pc = "frame" ->
            IF Len(co.iterators) = 0
            THEN Res([co EXCEPT !.timeSinceFirstFrame = in.deltaTime],
                     FALSE, FALSE, vals, <<>>)
            ELSE Res([co EXCEPT !.pc = "child", !.idx = 1,
                                !.timeSinceFirstFrame = in.deltaTime],
                     FALSE, FALSE, vals, <<>>)

\* chain(...animations): `yield* iterator` for each iterator in turn. The
\* resumption goes to iterator idx; when that one is done the for loop moves
\* on and yield* starts the next one in the same resumption. The log lists
\* the indices of the iterators the resumption reached, in order.
RECURSIVE chainFrom(_, _, _, _, _)
chainFrom(co, in, vals, log, reg) ==
    IF co.idx > Len(co.iterators)
    THEN WithReg(Res(Finished(co), TRUE, FALSE, vals, log), reg)
    ELSE LET r == next(co.iterators[co.idx], in, vals)
             co1 == [co EXCEPT !.pc = "run", !.iterators[co.idx] = r.co]
             log1 == Append(log, co.idx)
             reg1 == reg \o r.reg
         IN  IF r.threw
             THEN WithReg(Res(Finished(co1), FALSE, TRUE, r.vals, log1), reg1)
             ELSE IF r.done
             THEN chainFrom([co1 EXCEPT !.idx = @ + 1], in, r.vals, log1, reg1)
             ELSE WithReg(Res(co1, FALSE, FALSE, r.vals, log1), reg1)

chainInterleaved(co, in, vals) ==
    LET r == next(co.iterators[co.idx], in, vals)
        last == co.idx = Len(co.iterators)
        co1 == [co EXCEPT !.pc = "run", !.iterators[co.idx] = r.co,
                          !.idx = IF last THEN @ ELSE @ + 1]
    IN  WithReg(IF r.done /\ last
                THEN Res(Finished(co1), TRUE, FALSE, r.vals, <<co.idx>>)
                ELSE Res(co1, FALSE, r.threw, r.vals, <<co.idx>>), r.reg)

chain(co, in, vals) == chainFrom(co, in, vals, <<>>, <<>>)

\* sequence(delayMs, ...animations): `yield* iterators[i]`, then, unless i is
\* the last index, `yield* wait(delayMs)` with a wait created on the spot.
\* phase tells which of the two yield* the generator is in.
RECURSIVE sequenceFrom(_, _, _, _, _)
sequenceFrom(co, in, vals, log, reg) ==
    IF co.idx > Len(co.iterators)
    THEN WithReg(Res(Finished(co), TRUE, FALSE, vals, log), reg)
    ELSE IF co.phase = "child"
    THEN LET r == next(co.iterators[co.idx], in, vals)
             co1 == [co EXCEPT !.pc = "run", !.iterators[co.idx] = r.co]
             log1 == Append(log, co.idx)
             reg1 == reg \o r.reg
         IN  IF r.threw
             THEN WithReg(Res(Finished(co1), FALSE, TRUE, r.vals, log1), reg1)
             ELSE IF ~r.done
             THEN WithReg(Res(co1, FALSE, FALSE, r.vals, log1), reg1)
             ELSE IF co.idx < Len(co.iterators)
             THEN sequenceFrom([co1 EXCEPT !.phase = "wait",
                                           !.w = [@ EXCEPT !.pc = "start"]],
                               in, r.vals, log1, reg1)
             ELSE sequenceFrom([co1 EXCEPT !.idx = @ + 1], in, r.vals, log1, reg1)
    ELSE LET r == wait(co.w, in, vals)
         IN  IF r.done
             THEN sequenceFrom([co EXCEPT !.phase = "child", !.idx = @ + 1,
                                          !.w = r.co],
                               in, vals, log, reg)
             ELSE WithReg(Res([co EXCEPT !.pc = "run", !.w = r.co],
                              FALSE, FALSE, vals, log), reg)

\* sequence that forgets the wait between the children.
sequenceWithoutWait(co, in, vals) == chainFrom(co, in, vals, <<>>, <<>>)

sequence(co, in, vals) == sequenceFrom(co, in, vals, <<>>, <<>>)

\* loop(iterations, factory): `for (i = 0; i < iterations; i++) yield*
\* factory(i)`. cur is the generator factory(i) returned while the loop is
\* delegating to it; the log lists the arguments factory was called with.
RECURSIVE loopFrom(_, _, _, _, _, _)
loopFrom(co, limit, in, vals, log, reg) ==
    IF co.cur = NULL
    THEN IF co.i < limit
         THEN loopFrom([co EXCEPT !.pc = "run",
                                  !.cur = materializeGenerator(Factory(co.factory, co.i))],
                       limit, in, vals, Append(log, co.i), reg)
         ELSE WithReg(Res(Finished(co), TRUE, FALSE, vals, log), reg)
    ELSE LET r == next(co.cur, in, vals)
             reg1 == reg \o r.reg
         IN  IF r.threw
             THEN WithReg(Res(Finished(co), FALSE, TRUE, r.vals, log), reg1)
             ELSE IF r.done
             THEN loopFrom([co EXCEPT !.i = @ + 1, !.cur = NULL],
                           limit, in, r.vals, log, reg1)
             ELSE WithReg(Res([co EXCEPT !.cur = r.co], FALSE, FALSE, r.vals, log),
                          reg1)

\* loop with `i <= iterations` as its test.
loopInclusive(co, in, vals) ==
    loopFrom(co, co.iterations + 1, in, vals, <<>>, <<>>)

\* loop whose counter starts at 1.
loopFromOne(co, in, vals) ==
    loopFrom(IF co.pc = "start" THEN [co EXCEPT !.i = 1] ELSE co,
             co.iterations, in, vals, <<>>, <<>>)

loop(co, in, vals) == loopFrom(co, co.iterations, in, vals, <<>>, <<>>)

\* One wrapper of stagger: in its wait (pc "wait") or in the animation (pc
\* "child"), which yield* starts in the resumption that ends the wait.
staggerItem(co, in, vals) ==
    IF co.pc \in {"start", "wait"}
    THEN LET r == wait(co.w, in, vals) IN
         IF ~r.done
         THEN Res([co EXCEPT !.pc = "wait", !.w = r.co], FALSE, FALSE, vals, <<>>)
         ELSE LET rc == next(co.c, in, vals)
                  co1 == [co EXCEPT !.pc = "child", !.w = r.co, !.c = rc.co]
              IN  WithReg(Res(IF rc.done \/ rc.threw THEN Finished(co1) ELSE co1,
                              rc.done, rc.threw, rc.vals, <<>>), rc.reg)
    ELSE LET rc == next(co.c, in, vals)
             co1 == [co EXCEPT !.c = rc.co]
         IN  WithReg(Res(IF rc.done \/ rc.threw THEN Finished(co1) ELSE co1,
                         rc.done, rc.threw, rc.vals, <<>>), rc.reg)

\* One next(in) of a generator.
Step(co, in, vals) ==
    CASE co.pc = "done" -> Res(co, TRUE, FALSE, vals, <<>>)
      [] co.pc # "done" /\ co.kind \in {"yielder", "thrower"} -> userStep(co, vals)
      [] co.pc # "done" /\ co.kind = "wait" -> wait(co, in, vals)
      [] co.pc # "done" /\ co.kind = "timing" -> timing(co, in, vals)
      [] co.pc # "done" /\ co.kind = "parallel" -> parallel(co, in, vals)
      [] co.pc # "done" /\ co.kind = "any" -> any(co, in, vals)
      [] co.pc # "done" /\ co.kind = "registrar" -> registrarStep(co, vals)
      [] co.pc # "done" /\ co.kind = "chain" -> chain(co, in, vals)
      [] co.pc # "done" /\ co.kind = "sequence" -> sequence(co, in, vals)
      [] co.pc # "done" /\ co.kind = "loop" -> loop(co, in, vals)
      [] co.pc # "done" /\ co.kind = "staggerItem" -> staggerItem(co, in, vals)
      [] co.pc # "done" /\ co.kind = "untilFrameWithin" -> untilFrameWithin(co, in, vals)
      [] co.pc # "done" /\ co.kind = "timingCallback" -> timingCallback(co, in, vals)

\* ------------------------------------------------------------- Controller
VARIABLES
    program,          \* the animation function handed to create()
    gen,              \* the generator instance, or NULL
    values,           \* the SharedValues group: key -> current value
    lastTime,         \* Date.now() at the previous loop() / start / resume
    raf,              \* the last frame handle requested, 0 for null
    clearFunctions,   \* callbacks registered through onClear
    isPaused,
    pending,          \* the platform's queue of frame requests not yet fired
    now,              \* Date.now()
    lastStep,         \* the operation the last step performed
    lastCall,         \* the last Controller method called
    callTime,         \* Date.now() when it was called
    tickedSinceCall,  \* a frame callback ran since then
    pausedSince,      \* pause() was called and no resume/play/restart since
    pauseTime,        \* Date.now() at that pause(), kept over the resume(); else -1
    tickOutcome,      \* what the last frame callback did with the coroutine
    lastDelta,        \* the deltaTime it computed
    tickLog,          \* the children the coroutine resumed in it
    solo,             \* each child of the program's combinator, run on its own
    cleared,          \* the cleanup callbacks the last step invoked, in order,
                      \* each with the group's values it saw
    registered,       \* the callbacks handed to onClear since the last clear()
    late,             \* the frames delivered after the frame time a stagger's
                      \* last wait was to last had been delivered to the
                      \* generator (counted up to Slack + 1)
    calls,            \* the arguments loop's factory was called with since the
                      \* generator was created
    delivered,        \* for a program in Measured, the sum of the deltaTime
                      \* values handed to the generator since it was created
                      \* or since it last moved on to its next child
    edges,            \* Graph._edges: the stored edges, in insertion order
    outcome,          \* what the last Graph.addEdge call did
    subscriptions,    \* this[_subscriptions] of every emitter
    oneTimeEvents,    \* this[_oneTimeEvents] of every emitter
    prepared,         \* this._ready of every emitter
    stored,           \* this._value of every SharedValue of the group
    heard,            \* the user listeners the last operation invoked, in order
    emitted,          \* the emit calls the last operation made, in order
    threw,            \* the last operation threw
    op,               \* the last operation on an emitter
    phase,            \* the last of initialize() and destroy() a group saw:
                      \* "initialized", "destroyed", or "revived" for an
                      \* initialize() of a destroyed group
    revoked           \* the callbacks handed to offOnce that were subscribed
                      \* through once only and were not subscribed again since

ctl == <<gen, values, lastTime, raf, clearFunctions, isPaused, pending>>
ghost == <<lastStep, lastCall, callTime, tickedSinceCall, pausedSince, pauseTime,
           tickOutcome, lastDelta, tickLog, solo, cleared, registered,
           calls, delivered, late>>
graphVars == <<edges, outcome>>
emitterVars == <<subscriptions, oneTimeEvents, prepared, stored, heard, emitted,
                 threw, op, phase, revoked>>
vars == <<program, ctl, now, ghost, graphVars, emitterVars>>

\* The closure of create() as a record.
Self == [gen |-> gen, values |-> values, lastTime |-> lastTime, raf |-> raf,
         clearFunctions |-> clearFunctions, isPaused |-> isPaused,
         pending |-> pending, invoked |-> <<>>]

Become(c) ==
    /\ gen' = c.gen
    /\ values' = c.values
    /\ lastTime' = c.lastTime
    /\ raf' = c.raf
    /\ clearFunctions' = c.clearFunctions
    /\ isPaused' = c.isPaused
    /\ pending' = c.pending
    /\ cleared' = c.invoked

\* Frame handles are unique among the live requests; a handle is reused only
\* after its request fired or was cancelled and raf was overwritten.
FreshHandle(q) ==
    CHOOSE i \in 1..(Len(q) + 1) :
        /\ \A k \in 1..Len(q) : q[k] # i
        /\ \A j \in 1..(i - 1) : \E k \in 1..Len(q) : q[k] = j

requestAnimation(c) ==
    LET id == FreshHandle(c.pending)
    IN  [c EXCEPT !.pending = Append(@, id), !.raf = id]

cancelAnimation(c, id) ==
    [c EXCEPT !.pending = SelectSeq(@, LAMBDA h : h # id)]

Reverse(q) == [i \in 1..Len(q) |-> q[Len(q) + 1 - i]]

\* clearFunctions.push(callback) in the place of unshift.
pushAll(fs, reg) == fs \o reg

\* clearFunctions.unshift(callback) for every callback in call order.
unshiftAll(fs, reg) == Reverse(reg) \o fs

\* function loop() of create()
createLoop(c, t) ==
    LET g == IF c.gen = NULL THEN materializeGenerator(program) ELSE c.gen
        delta == t - c.lastTime
        c1 == [c EXCEPT !.gen = g, !.lastTime = t]
    IN  IF c.isPaused
        THEN [c |-> c1, outcome |-> "skipped", delta |-> delta, log |-> <<>>,
              reg |-> <<>>]
        ELSE LET r == Step(g, [deltaTime |-> delta], c.values)
                 g2 == IF r.done \/ r.threw THEN NULL ELSE r.co
                 c2 == [c1 EXCEPT !.gen = g2, !.values = r.vals,
                                  !.clearFunctions = unshiftAll(@, r.reg)]
             IN  [c |-> IF g2 # NULL THEN requestAnimation(c2)
                        ELSE [c2 EXCEPT !.isPaused = TRUE],
                  outcome |-> IF r.threw THEN "throw"
                              ELSE IF r.done THEN "done" ELSE "yield",
                  delta |-> delta, log |-> r.log, reg |-> r.reg]

\* paused() that cancels the frame but leaves isPaused false on pause.
pausedKeepsRunning(c, p, t) ==
    IF ~p THEN requestAnimation([c EXCEPT !.isPaused = FALSE, !.lastTime = t])
    ELSE IF c.raf # 0 THEN cancelAnimation(c, c.raf) ELSE c

\* paused() that does not restart the frame clock on resume.
pausedKeepsLastTime(c, p, t) ==
    LET c1 == [c EXCEPT !.isPaused = p]
    IN  IF ~p THEN requestAnimation(c1)
        ELSE IF c1.raf # 0 THEN cancelAnimation(c1, c1.raf) ELSE c1

paused(c, p, t) ==
    LET c1 == [c EXCEPT !.isPaused = p]
    IN  IF ~p THEN requestAnimation([c1 EXCEPT !.lastTime = t])
        ELSE IF c1.raf # 0 THEN cancelAnimation(c1, c1.raf) ELSE c1

start(c, t) ==
    LET c1 == IF c.raf # 0 THEN cancelAnimation(c, c.raf) ELSE c
    IN  requestAnimation([c1 EXCEPT !.gen = NULL, !.lastTime = t,
                                    !.values = valuesClear(@)])

\* clear(): values.clear(), then every callback of clearFunctions in array
\* order, then the array is replaced by an empty one.
clear(c) ==
    LET c1 == [c EXCEPT !.values = valuesClear(@)]
    IN  [c1 EXCEPT !.invoked = @ \o [i \in 1..Len(c.clearFunctions) |->
                                        [cb |-> c.clearFunctions[i], seen |-> c1.values]],
                   !.clearFunctions = <<>>]
pause(c, t) == paused(c, TRUE, t)
\* resume() that starts over the way start() does.
resumeAsStart(c, t) == start(c, t)

resume(c, t) == paused(c, FALSE, t)
play(c, t) == resume(c, t)
\* stop() that forgets to pause.
stopWithoutPause(c, t) == [clear(c) EXCEPT !.gen = NULL, !.lastTime = t]

stop(c, t) == pause([clear(c) EXCEPT !.gen = NULL, !.lastTime = t], t)
\* restart() that forgets to resume.
restartWithoutResume(c, t) == stop(c, t)

restart(c, t) == resume(stop(c, t), t)

\* The children of the program's combinator, each driven on its own by the
\* frames the Controller delivers: created when loop() creates the generator,
\* resumed with the same frame info whenever loop() resumes it.
Children(desc) == IF desc.kind \in {"parallel", "any"} THEN desc.children ELSE <<>>

soloLoop(create, skip, s, delta, vals) ==
    LET base == IF create
                THEN [i \in 1..Len(Children(program)) |->
                         materializeGenerator(Children(program)[i])]
                ELSE s
    IN  IF skip THEN base
        ELSE [i \in 1..Len(base) |-> Step(base[i], [deltaTime |-> delta], vals).co]

\* The child a delegating generator is at (0 for one that does not delegate).
Progress(g) ==
    IF g = NULL THEN 0
    ELSE IF g.kind = "chain" THEN g.idx
    ELSE IF g.kind = "sequence" THEN 2 * g.idx + (IF g.phase = "wait" THEN 1 ELSE 0)
    ELSE IF g.kind = "parallel" /\ Len(g.iterators) > 0
            /\ g.iterators[Len(g.iterators)].kind = "staggerItem"
    THEN (IF g.iterators[Len(g.iterators)].w.pc \in {"w1", "done"} THEN 1 ELSE 0)
    ELSE 0

\* The duration of the wait in front of the last animation of a stagger.
LastDelay(desc) == desc.delayMs * (Len(desc.children) - 1)

\* ----------------------------------------------------------------- steps
Programs == { Timing("x", 3, 0, 2), Timing("y", 0 - 1, 1, 3), Thrower(1) }

ParallelPrograms == { ParallelOf(<<Timing("x", 1, 0, 1), Yielder(1)>>) }

AllPrograms ==
    { AllOf(<<UntilFrameWithin(1), Yielder(0)>>),
      ChainOf(<<ParallelOf(<<Yielder(0), Wait(1)>>), Yielder(0)>>) }

AnyPrograms ==
    { AnyOf(<<Yielder(0), Wait(1)>>), AnyOf(<<Wait(2), Yielder(2)>>) }

ChainPrograms ==
    { ChainOf(<<Yielder(1), Yielder(0), Wait(1)>>),
      ChainOf(<<ChainOf(<<Wait(1), Timing("x", 1, 0, 1)>>), Yielder(1)>>) }

WaitPrograms ==
    { Wait(0), Wait(2),
      ChainOf(<<Wait(2), Yielder(1)>>),
      ChainOf(<<Yielder(1), Wait(1), Yielder(0)>>) }

SequencePrograms ==
    { SequenceOf(1, <<Yielder(1), Yielder(0)>>),
      SequenceOf(2, <<Yielder(0), Wait(1), Yielder(0)>>),
      SequenceOf(0, <<Timing("x", 1, 0, 1), Yielder(1)>>) }

LoopPrograms ==
    { LoopOf(0, "timing"), LoopOf(2, "timing"), LoopOf(3, "instant") }

CallbackPrograms ==
    { TimingCallback(1, 0, 2, 0, 2), TimingCallback(0, 0, 2, 0, 2),
      TimingCallback(2, 0, 2, 1, 1), TimingCallback(1, 0, 3, 0, 3) }

FromPrograms ==
    { TimingFrom("x", 2, 0, 0, 2), TimingFrom("y", 1, 3, 0, 2),
      Timing("x", 2, 0, 2) }

StaggerPrograms == { StaggerOf(1, <<Yielder(0), Yielder(0)>>) }

\* The programs for which the frame time handed to the generator is summed.
Measured == WaitPrograms \cup SequencePrograms \cup StaggerPrograms

ClearPrograms ==
    { ChainOf(<<Timing("x", 2, 0, 1), Registrar("a", 0), Registrar("b", 1)>>),
      ChainOf(<<Registrar("c", 0), Yielder(1)>>) }

LoserPrograms ==
    { ChainOf(<<AnyOf(<<Registrar("a", 1), Registrar("b", 0)>>), Yielder(1)>>),
      ChainOf(<<AnyOf(<<Yielder(0), Registrar("c", 0)>>), Yielder(0)>>) }

\* No emitter is observed.
NoEmitter ==
    /\ subscriptions = <<>>
    /\ oneTimeEvents = <<>>
    /\ prepared = <<>>
    /\ stored = <<>>
    /\ heard = <<>>
    /\ emitted = <<>>
    /\ threw = FALSE
    /\ op = [name |-> "none"]
    /\ phase = "none"
    /\ revoked = {}

\* No Graph is in use.
NoGraph ==
    /\ edges = <<>>
    /\ outcome = "none"

Controller(programs) ==
    /\ program \in programs
    /\ gen = NULL
    /\ values = InitialValues
    /\ lastTime = 0
    /\ raf = 0
    /\ clearFunctions = <<>>
    /\ isPaused = FALSE
    /\ pending = <<>>
    /\ now = 0
    /\ lastStep = "create"
    /\ lastCall = "create"
    /\ callTime = 0
    /\ tickedSinceCall = FALSE
    /\ pausedSince = FALSE
    /\ pauseTime = 0 - 1
    /\ tickOutcome = "none"
    /\ lastDelta = 0
    /\ tickLog = <<>>
    /\ solo = <<>>
    /\ cleared = <<>>
    /\ registered = <<>>
    /\ delivered = 0
    /\ calls = <<>>
    /\ late = 0

\* The state after create(animation, state).
Created(programs) ==
    /\ Controller(programs)
    /\ NoGraph
    /\ NoEmitter

Init == Created(Programs)
InitParallel == Created(ParallelPrograms)
InitChain == Created(ChainPrograms)
InitWait == Created(WaitPrograms)
InitSequence == Created(SequencePrograms)
InitLoop == Created(LoopPrograms)
InitCallback == Created(CallbackPrograms)
InitFrom == Created(FromPrograms)
InitAll == Created(AllPrograms)
InitStagger == Created(StaggerPrograms)
InitClear == Created(ClearPrograms)
InitLosers == Created(LoserPrograms)
InitAny == Created(AnyPrograms)

\* A Controller method was called.
Call(name, c, p) ==
    /\ Len(c.pending) <= MaxPending
    /\ Become(c)
    /\ lastStep' = name
    /\ lastCall' = name
    /\ callTime' = now
    /\ tickedSinceCall' = FALSE
    /\ pausedSince' = p
    /\ pauseTime' = IF name = "pause" THEN now
                    ELSE IF name \in {"resume", "play"} THEN pauseTime ELSE 0 - 1
    /\ tickOutcome' = "none"
    /\ lastDelta' = 0
    /\ tickLog' = <<>>
    /\ registered' = IF name \in {"clear", "stop", "restart"} THEN <<>> ELSE registered
    /\ UNCHANGED <<program, now, solo, delivered, calls, late, graphVars,
                   emitterVars>>

Start == Call("start", start(Self, now), pausedSince)
Clear == Call("clear", clear(Self), pausedSince)
Pause == Call("pause", pause(Self, now), TRUE)
Resume == Call("resume", resume(Self, now), FALSE)
Play == Call("play", play(Self, now), FALSE)
Stop == Call("stop", stop(Self, now), pausedSince)
Restart == Call("restart", restart(Self, now), FALSE)

\* The platform runs the oldest pending frame callback when Date.now() is t.
Frame(t) ==
    /\ pending # <<>>
    /\ LET r == createLoop([Self EXCEPT !.pending = Tail(@)], t)
       IN  /\ Len(r.c.pending) <= MaxPending
           /\ Len(r.c.clearFunctions) <= MaxClear
           /\ Become(r.c)
           /\ registered' = registered \o r.reg
           /\ calls' = IF program.kind # "loop" THEN <<>>
                        ELSE IF gen = NULL THEN r.log
                        ELSE calls \o r.log
           /\ late' = IF gen = NULL THEN 0
                       ELSE IF r.outcome = "skipped" \/ program.kind # "stagger"
                       THEN late
                       ELSE IF Progress(gen) = 1 /\ delivered >= LastDelay(program)
                                /\ late <= Slack
                       THEN late + 1
                       ELSE late
           /\ delivered' = IF gen = NULL \/ program \notin Measured THEN 0
                            ELSE IF r.outcome = "skipped" THEN delivered
                            ELSE IF Progress(r.c.gen) # Progress(gen) THEN 0
                            ELSE delivered + r.delta
           /\ tickOutcome' = r.outcome
           /\ lastDelta' = r.delta
           /\ tickLog' = r.log
    /\ solo' = soloLoop(gen = NULL, isPaused, solo, t - lastTime, values)
    /\ lastStep' = "tick"
    /\ tickedSinceCall' = TRUE
    /\ now' = t
    /\ UNCHANGED <<program, lastCall, callTime, pausedSince, pauseTime, graphVars,
                   emitterVars>>

\* With requestAnimationFrame a frame callback runs at any time.
Tick == Frame(now)

Advance ==
    /\ \E d \in 1..MaxStep :
        /\ now + d <= MaxTime
        /\ now' = now + d
    /\ lastStep' = "advance"
    /\ tickOutcome' = "none"
    /\ lastDelta' = 0
    /\ tickLog' = <<>>
    /\ cleared' = <<>>
    /\ UNCHANGED <<program, ctl, lastCall, callTime, tickedSinceCall, pausedSince,
                   pauseTime, solo, registered, delivered, calls, late, graphVars,
                   emitterVars>>

Next ==
    \/ Start
    \/ Clear
    \/ Pause
    \/ Resume
    \/ Play
    \/ Stop
    \/ Restart
    \/ Tick
    \/ Advance

Spec == Init /\ [][Next]_vars
SpecParallel == InitParallel /\ [][Next]_vars
SpecAny == InitAny /\ [][Next]_vars
SpecChain == InitChain /\ [][Next]_vars
SpecWait == InitWait /\ [][Next]_vars
SpecSequence == InitSequence /\ [][Next]_vars
SpecLoop == InitLoop /\ [][Next]_vars
SpecCallback == InitCallback /\ [][Next]_vars
SpecFrom == InitFrom /\ [][Next]_vars
SpecAll == InitAll /\ [][Next]_vars
SpecStagger == InitStagger /\ [][Next]_vars
SpecClear == InitClear /\ [][Next]_vars
SpecLosers == InitLosers /\ [][Next]_vars

\* ---------------------------------------------------------- EventEmitter
\* EventEmitter (src/class/EventEmitter.ts) and the SharedValue / SharedValues
\* built on it (src/SharedValue/index.ts).  Dispatch is synchronous and
\* re-entrant: a listener may call back into any emitter.  The emitters are
\* therefore run as a machine m with a list m.todo of the calls still to be
\* made, innermost first; step(m) performs the first of them and Exec(m)
\* runs the list to its end.  Array positions are 1-based here: the JavaScript
\* index i is position i + 1.
\*
\*   m.subs[e]     this[_subscriptions] of emitter e
\*   m.oneTime[e]  this[_oneTimeEvents] of emitter e: the events and arguments
\*   m.ready[e]    this._ready of emitter e
\*   m.value[k]    this._value of the SharedValue of key k
\*   m.heard       the user listeners invoked so far, in order
\*   m.emitted     the emit calls made so far, in order, each with the values
\*                 of the group at the time of the call
\*   m.threw       an Error was thrown and nothing caught it
Group == "g"
Plain == "e"
Emitters == {Plain, Group} \cup Keys

\* A JavaScript string whose text is the decimal text of the integer i.
Str(i) == [t |-> "string", n |-> i, d |-> 1]

NoCallback == [kind |-> "none"]
\* () => { this._ready = true }
InternalReady == [kind |-> "internalReady"]
\* the ourCallback closure made by once(event, inner)
OurCallback(inner) == [kind |-> "ourCallback", inner |-> inner]
\* the async closure made by ready(inner)
AsyncCallback(inner) == [kind |-> "async", inner |-> inner]
\* the callback SharedValues hands to ready()
Establish == [kind |-> "establish"]
\* the listener of child k that forwards to the group
Forward(k) == [kind |-> "forward", key |-> k]
\* the listener of "destroy" that stops the forwarding
Teardown == [kind |-> "teardown"]
\* a listener of the caller's: it is recorded in m.heard and then does what
\* `does` says
User(id, does) == [kind |-> "user", id |-> id, does |-> does]

Subscription(event, cb, isOnce) == [event |-> event, callback |-> cb, once |-> isOnce]

Emit(e, event, args) == [op |-> "emit", em |-> e, event |-> event, args |-> args]
EmitValues == [op |-> "emitValues"]
EmitFor(ins, i) ==
    [op |-> "emitFor", em |-> ins.em, event |-> ins.event, args |-> ins.args, i |-> i]
RunCallback(e, event, cb, args) ==
    [op |-> "runCallback", em |-> e, event |-> event, callback |-> cb, args |-> args]
On(e, event, cb) == [op |-> "on", em |-> e, event |-> event, callback |-> cb]
Once(e, event, cb) == [op |-> "once", em |-> e, event |-> event, callback |-> cb]
Off(e, event, cb) == [op |-> "off", em |-> e, event |-> event, callback |-> cb]
OffOnce(e, event, cb) == [op |-> "offOnce", em |-> e, event |-> event, callback |-> cb]
EmitOnce(e, event, args) ==
    [op |-> "emitOnce", em |-> e, event |-> event, args |-> args]
MarkOnce(e, event, args) ==
    [op |-> "markOnce", em |-> e, event |-> event, args |-> args]
SetReady(e, v) == [op |-> "setReady", em |-> e, value |-> v]
SetPrepared(e, v) == [op |-> "setPrepared", em |-> e, value |-> v]
Prepare(e, v) == [op |-> "prepare", em |-> e, value |-> v]
Ready(e, cb) == [op |-> "ready", em |-> e, callback |-> cb]
AssignValue(k, v) == [op |-> "assignValue", key |-> k, value |-> v]
ClearValue(k) == [op |-> "clearValue", key |-> k]
GroupClear == [op |-> "groupClear"]
Initialize == [op |-> "initialize"]
Destroy == [op |-> "destroy"]

Continue(m, todo) == [m EXCEPT !.todo = todo]
\* An Error is thrown; nothing in these classes catches it.
Throw(m) == [m EXCEPT !.todo = <<>>, !.threw = TRUE]

\* this[_oneTimeEvents].has(event) and .get(event)
has(m, e, event) == \E i \in 1..Len(m.oneTime[e]) : m.oneTime[e][i].event = event
get(m, e, event) ==
    m.oneTime[e][CHOOSE i \in 1..Len(m.oneTime[e]) : m.oneTime[e][i].event = event].args

\* emit(event, ...arg), up to the loop
emit(m, ins, rest) ==
    IF has(m, ins.em, ins.event) THEN Throw(m)
    ELSE [m EXCEPT !.todo = <<EmitFor(ins, 1)>> \o rest,
                   !.emitted = Append(@, [em |-> ins.em, event |-> ins.event,
                                         args |-> ins.args, at |-> m.value])]

\* this.emit("change", this.values): the snapshot is taken when the call is made
emitValues(m, ins, rest) ==
    Continue(m, <<Emit(Group, "change", <<m.value>>)>> \o rest)

\* The loop of emit at position ins.i: it reads the array held by the emitter
\* at that moment.  After the callback of a `once` subscription it removes
\* whatever is at position i by then and stays at i.
emitFor(m, ins, rest) ==
    IF ins.i > Len(m.subs[ins.em]) THEN Continue(m, rest)
    ELSE IF m.subs[ins.em][ins.i].event # ins.event
    THEN Continue(m, <<EmitFor(ins, ins.i + 1)>> \o rest)
    ELSE Continue(m, <<RunCallback(ins.em, ins.event,
                                   m.subs[ins.em][ins.i].callback, ins.args),
                       IF m.subs[ins.em][ins.i].once
                       THEN [EmitFor(ins, ins.i) EXCEPT !.op = "emitSplice"]
                       ELSE EmitFor(ins, ins.i + 1)>> \o rest)

\* this[_subscriptions].splice(i, 1); i--; and the loop's i++
emitSplice(m, ins, rest) ==
    [m EXCEPT !.subs[ins.em] =
                  [j \in 1..(Len(@) - (IF ins.i <= Len(@) THEN 1 ELSE 0)) |->
                      IF j < ins.i THEN @[j] ELSE @[j + 1]],
              !.todo = <<EmitFor(ins, ins.i)>> \o rest]

\* callback(...arg) for every kind of callback there is
runCallback(m, ins, rest) ==
    CASE ins.callback.kind = "none" -> Continue(m, rest)
      [] ins.callback.kind = "internalReady" ->
            [m EXCEPT !.ready[ins.em] = TRUE, !.todo = rest]
      [] ins.callback.kind \in {"ourCallback", "async"} ->
            Continue(m, <<[ins EXCEPT !.callback = @.inner]>> \o rest)
      [] ins.callback.kind = "establish" ->
            Continue(m, [i \in 1..Len(KeySeq) |->
                            On(KeySeq[i], "value", Forward(KeySeq[i]))]
                        \o <<Once(Group, "destroy", Teardown)>> \o rest)
      [] ins.callback.kind = "forward" ->
            Continue(m, <<Emit(Group, "value",
                               <<ins.callback.key, m.value[ins.callback.key]>>),
                          EmitValues>> \o rest)
      [] ins.callback.kind = "teardown" ->
            Continue(m, [i \in 1..Len(KeySeq) |->
                            Off(KeySeq[i], "value", Forward(KeySeq[i]))]
                        \o <<Prepare(Group, FALSE)>> \o rest)
      [] ins.callback.kind = "user" ->
            [m EXCEPT !.heard = Append(@, [em |-> ins.em, event |-> ins.event,
                                           id |-> ins.callback.id, args |-> ins.args]),
                      !.todo = (CASE ins.callback.does = "offSelf" ->
                                        <<Off(ins.em, ins.event, ins.callback)>>
                                  [] ins.callback.does = "offFirst" ->
                                        <<Off(ins.em, ins.event, User("a", "log"))>>
                                  [] OTHER -> <<>>) \o rest]

\* on(event, callback)
on(m, ins, rest) ==
    IF has(m, ins.em, ins.event)
    THEN Continue(m, <<RunCallback(ins.em, ins.event, ins.callback,
                                   get(m, ins.em, ins.event))>> \o rest)
    ELSE [m EXCEPT !.subs[ins.em] = Append(@, Subscription(ins.event, ins.callback, FALSE)),
                   !.todo = rest]

\* once(event, callback)
once(m, ins, rest) ==
    IF has(m, ins.em, ins.event)
    THEN Continue(m, <<RunCallback(ins.em, ins.event, OurCallback(ins.callback),
                                   get(m, ins.em, ins.event))>> \o rest)
    ELSE [m EXCEPT !.subs[ins.em] =
                       Append(@, Subscription(ins.event, OurCallback(ins.callback), TRUE)),
                   !.todo = rest]

\* off that keeps what it should remove and removes the rest of the event's
\* listeners.
offInverted(m, ins, rest) ==
    [m EXCEPT !.subs[ins.em] =
                  SelectSeq(@, LAMBDA s : s.event # ins.event
                                   \/ ~(ins.callback # NoCallback
                                            /\ s.callback # ins.callback)),
              !.todo = rest]

\* off(event, callback?)
off(m, ins, rest) ==
    [m EXCEPT !.subs[ins.em] =
                  SelectSeq(@, LAMBDA s : s.event # ins.event
                                   \/ (ins.callback # NoCallback
                                          /\ s.callback # ins.callback)),
              !.todo = rest]

\* offOnce(event, callback?)
offOnce(m, ins, rest) ==
    [m EXCEPT !.subs[ins.em] =
                  SelectSeq(@, LAMBDA s : s.event # ins.event
                                   \/ (ins.callback # NoCallback
                                          /\ s.callback # ins.callback)
                                   \/ ~s.once),
              !.todo = rest]

\* emitOnce(event, ...arg)
emitOnce(m, ins, rest) ==
    IF has(m, ins.em, ins.event) THEN Throw(m)
    ELSE Continue(m, <<Emit(ins.em, ins.event, ins.args),
                       MarkOnce(ins.em, ins.event, ins.args),
                       OffOnce(ins.em, ins.event, NoCallback)>> \o rest)

\* this[_oneTimeEvents].set(event, arg)
markOnce(m, ins, rest) ==
    [m EXCEPT !.oneTime[ins.em] = Append(@, [event |-> ins.event, args |-> ins.args]),
              !.todo = rest]

\* set prepared(value)
setPrepared(m, ins, rest) ==
    IF ins.value
    THEN Continue(m, <<Emit(ins.em, "internal_ready", <<>>),
                       SetReady(ins.em, ins.value)>> \o rest)
    ELSE Continue(m, <<SetReady(ins.em, ins.value)>> \o rest)

\* this._ready = value
setReady(m, ins, rest) == [m EXCEPT !.ready[ins.em] = ins.value, !.todo = rest]

\* prepare(value): the emitter is marked prepared or not, as by the setter.
prepare(m, ins, rest) == Continue(m, <<SetPrepared(ins.em, ins.value)>> \o rest)

\* ready(callback)
ready(m, ins, rest) ==
    IF m.ready[ins.em]
    THEN Continue(m, <<RunCallback(ins.em, "ready", ins.callback, <<>>)>> \o rest)
    ELSE Continue(m, <<Once(ins.em, "internal_ready", AsyncCallback(ins.callback))>>
                     \o rest)

\* set value(value) that notifies "change" before "value".
assignValueChangeFirst(m, ins, rest) ==
    IF String(ins.value) = String(m.value[ins.key]) THEN Continue(m, rest)
    ELSE [m EXCEPT !.value[ins.key] = ins.value,
                   !.todo = <<Emit(ins.key, "change", <<ins.value>>),
                              Emit(ins.key, "value", <<ins.value>>)>> \o rest]

\* set value(value) that stores the value before it compares the texts.
assignValueStoresFirst(m, ins, rest) ==
    IF String(ins.value) = String(m.value[ins.key])
    THEN [m EXCEPT !.value[ins.key] = ins.value, !.todo = rest]
    ELSE [m EXCEPT !.value[ins.key] = ins.value,
                   !.todo = <<Emit(ins.key, "value", <<ins.value>>),
                              Emit(ins.key, "change", <<ins.value>>)>> \o rest]

\* SharedValue: set value(value)
assignValue(m, ins, rest) ==
    IF String(ins.value) = String(m.value[ins.key]) THEN Continue(m, rest)
    ELSE [m EXCEPT !.value[ins.key] = ins.value,
                   !.todo = <<Emit(ins.key, "value", <<ins.value>>),
                              Emit(ins.key, "change", <<ins.value>>)>> \o rest]

\* SharedValue.clear()
clearValue(m, ins, rest) ==
    Continue(m, <<AssignValue(ins.key, InitialValues[ins.key])>> \o rest)

\* SharedValues.clear()
groupClear(m, ins, rest) ==
    Continue(m, [i \in 1..Len(KeySeq) |-> ClearValue(KeySeq[i])] \o rest)

\* SharedValues.initialize()
initialize(m, ins, rest) == Continue(m, <<Prepare(Group, TRUE)>> \o rest)

\* SharedValues.destroy()
destroy(m, ins, rest) == Continue(m, <<Emit(Group, "destroy", <<>>)>> \o rest)

\* The first call of m.todo is made.
step(m, ins, rest) ==
    CASE ins.op = "emit" -> emit(m, ins, rest)
      [] ins.op = "emitValues" -> emitValues(m, ins, rest)
      [] ins.op = "emitFor" -> emitFor(m, ins, rest)
      [] ins.op = "emitSplice" -> emitSplice(m, ins, rest)
      [] ins.op = "runCallback" -> runCallback(m, ins, rest)
      [] ins.op = "on" -> on(m, ins, rest)
      [] ins.op = "once" -> once(m, ins, rest)
      [] ins.op = "off" -> off(m, ins, rest)
      [] ins.op = "offOnce" -> offOnce(m, ins, rest)
      [] ins.op = "emitOnce" -> emitOnce(m, ins, rest)
      [] ins.op = "markOnce" -> markOnce(m, ins, rest)
      [] ins.op = "setPrepared" -> setPrepared(m, ins, rest)
      [] ins.op = "setReady" -> setReady(m, ins, rest)
      [] ins.op = "prepare" -> prepare(m, ins, rest)
      [] ins.op = "ready" -> ready(m, ins, rest)
      [] ins.op = "assignValue" -> assignValue(m, ins, rest)
      [] ins.op = "clearValue" -> clearValue(m, ins, rest)
      [] ins.op = "groupClear" -> groupClear(m, ins, rest)
      [] ins.op = "initialize" -> initialize(m, ins, rest)
      [] ins.op = "destroy" -> destroy(m, ins, rest)

\* The calls of m.todo are made until none is left.
RECURSIVE Exec(_)
Exec(m) == IF m.todo = <<>> THEN m ELSE Exec(step(m, Head(m.todo), Tail(m.todo)))

\* Every emitter as its constructor leaves it, and every SharedValue with
\* its initial value.
Blank ==
    [subs |-> [e \in Emitters |-> <<Subscription("internal_ready", InternalReady, FALSE)>>],
     oneTime |-> [e \in Emitters |-> <<>>],
     ready |-> [e \in Emitters |-> FALSE],
     value |-> InitialValues,
     heard |-> <<>>, emitted |-> <<>>, threw |-> FALSE, todo |-> <<>>]

\* new SharedValues({x: 0, y: 0}): the rest of the constructor, after the
\* children were made.
Constructed == Exec([Blank EXCEPT !.todo = <<Ready(Group, Establish), Initialize>>])

\* The emitters as a machine about to make the calls of todo.
Machine(todo) ==
    [subs |-> subscriptions, oneTime |-> oneTimeEvents, ready |-> prepared,
     value |-> stored, heard |-> <<>>, emitted |-> <<>>, threw |-> FALSE,
     todo |-> todo]

\* The emitters are left as the machine m is.
Settle(m) ==
    /\ subscriptions' = m.subs
    /\ oneTimeEvents' = m.oneTime
    /\ prepared' = m.ready
    /\ stored' = m.value
    /\ heard' = m.heard
    /\ emitted' = m.emitted
    /\ threw' = m.threw

\* A caller makes the calls of todo, one after the other.
Perform(todo) ==
    /\ Settle(Exec(Machine(todo)))
    /\ UNCHANGED <<program, ctl, now, ghost, graphVars>>

\* ------------------------------------------------ a SharedValues group
\* The values a caller assigns: two numbers, and the string "1", whose text is
\* that of the number 1.
Vals == {Num(0), Num(1), Str(1)}

\* The caller's listener: it only takes note of the notification.
Listener == User("u", "log")

\* The emitters a caller listens to, and the events.
Listened == {Group, "x"}
Notifications == {"value", "change"}

Listeners(e, event) ==
    SelectSeq(subscriptions[e], LAMBDA s : s.event = event /\ s.callback.kind = "user")

InitShared ==
    /\ Controller({NULL})
    /\ NoGraph
    /\ subscriptions = Constructed.subs
    /\ oneTimeEvents = Constructed.oneTime
    /\ prepared = Constructed.ready
    /\ stored = Constructed.value
    /\ heard = <<>>
    /\ emitted = <<>>
    /\ threw = FALSE
    /\ op = [name |-> "new"]
    /\ phase = "initialized"
    /\ revoked = {}

\* group.on(event, listener) or group.current.x.on(event, listener)
Subscribe ==
    \E e \in Listened, event \in Notifications :
        /\ Len(Listeners(e, event)) < MaxListeners
        /\ Perform(<<On(e, event, Listener)>>)
        /\ op' = [name |-> "on", em |-> e, event |-> event]
        /\ UNCHANGED <<phase, revoked>>

\* group.current[k].value = v
Assign ==
    \E k \in Keys, v \in Vals :
        /\ Perform(<<AssignValue(k, v)>>)
        /\ op' = [name |-> "assign", key |-> k, value |-> v]
        /\ UNCHANGED <<phase, revoked>>

\* group.current[k].clear()
ClearOne ==
    \E k \in Keys :
        /\ Perform(<<ClearValue(k)>>)
        /\ op' = [name |-> "clear", key |-> k, value |-> InitialValues[k]]
        /\ UNCHANGED <<phase, revoked>>

\* group.clear()
ClearAll ==
    /\ Perform(<<GroupClear>>)
    /\ op' = [name |-> "groupClear"]
    /\ UNCHANGED <<phase, revoked>>

\* group.destroy()
DestroyGroup ==
    /\ Perform(<<Destroy>>)
    /\ op' = [name |-> "destroy"]
    /\ phase' = "destroyed"
    /\ UNCHANGED revoked

\* group.initialize()
InitializeGroup ==
    /\ Perform(<<Initialize>>)
    /\ op' = [name |-> "initialize"]
    /\ phase' = IF phase = "destroyed" THEN "revived" ELSE phase
    /\ UNCHANGED revoked

NextShared ==
    \/ Subscribe
    \/ Assign
    \/ ClearOne
    \/ ClearAll
    \/ DestroyGroup
    \/ InitializeGroup

SpecShared == InitShared /\ [][NextShared]_vars

\* ---------------------------------------------------- a plain EventEmitter
\* The event the callers use, and the argument they emit it with.
Greet == "greet"
GreetArgs == <<"Alice">>

\* The callers' listeners: a only takes note, b unsubscribes itself when it
\* is called, c unsubscribes a when it is called.
Callbacks == {User("a", "log"), User("b", "offSelf"), User("c", "offFirst")}

\* The subscriptions of the plain emitter to the event, in subscription order.
Greeters == SelectSeq(subscriptions[Plain], LAMBDA s : s.event = Greet)

\* The caller's function behind a stored callback.
Inner(cb) == IF cb.kind = "ourCallback" THEN cb.inner ELSE cb

InitEmitter ==
    /\ Controller({NULL})
    /\ NoGraph
    /\ subscriptions = Blank.subs
    /\ oneTimeEvents = Blank.oneTime
    /\ prepared = Blank.ready
    /\ stored = Blank.value
    /\ heard = <<>>
    /\ emitted = <<>>
    /\ threw = FALSE
    /\ op = [name |-> "new"]
    /\ phase = "none"
    /\ revoked = {}

\* emitter.on("greet", cb)
UserOn ==
    \E cb \in Callbacks :
        /\ Len(Greeters) < MaxSubs
        /\ Perform(<<On(Plain, Greet, cb)>>)
        /\ op' = [name |-> "on", callback |-> cb]
        /\ revoked' = revoked \ {cb}
        /\ UNCHANGED phase

\* emitter.once("greet", cb)
UserOnce ==
    \E cb \in Callbacks :
        /\ Len(Greeters) < MaxSubs
        /\ Perform(<<Once(Plain, Greet, cb)>>)
        /\ op' = [name |-> "once", callback |-> cb]
        /\ revoked' = revoked \ {cb}
        /\ UNCHANGED phase

\* emitter.off("greet", cb) or emitter.off("greet")
UserOff ==
    \E cb \in Callbacks \cup {NoCallback} :
        /\ Perform(<<Off(Plain, Greet, cb)>>)
        /\ op' = [name |-> "off", callback |-> cb]
        /\ UNCHANGED <<phase, revoked>>

\* emitter.offOnce("greet", cb) or emitter.offOnce("greet")
UserOffOnce ==
    \E cb \in Callbacks \cup {NoCallback} :
        /\ Perform(<<OffOnce(Plain, Greet, cb)>>)
        /\ op' = [name |-> "offOnce", callback |-> cb]
        /\ revoked' =
              IF /\ \E i \in 1..Len(Greeters) :
                        Greeters[i].once /\ Inner(Greeters[i].callback) = cb
                 /\ \A i \in 1..Len(Greeters) :
                        Greeters[i].once \/ Greeters[i].callback # cb
              THEN revoked \cup {cb}
              ELSE revoked
        /\ UNCHANGED phase

\* emitter.emit("greet", "Alice")
UserEmit ==
    /\ Perform(<<Emit(Plain, Greet, GreetArgs)>>)
    /\ op' = [name |-> "emit"]
    /\ UNCHANGED <<phase, revoked>>

\* emitter.emitOnce("greet", "Alice")
UserEmitOnce ==
    /\ Perform(<<EmitOnce(Plain, Greet, GreetArgs)>>)
    /\ op' = [name |-> "emitOnce"]
    /\ UNCHANGED <<phase, revoked>>

NextEmitter ==
    \/ UserOn
    \/ UserOnce
    \/ UserOff
    \/ UserOffOnce
    \/ UserEmit
    \/ UserEmitOnce

SpecEmitter == InitEmitter /\ [][NextEmitter]_vars

\* -------------------------------------------------- the fallback timer
\* Without requestAnimationFrame, requestAnimation is setTimeout(callback, 16):
\* the frame callback runs FramePeriod after it was requested.  create() is
\* followed by one start() at any time, and nothing else is called.
FramePeriod == 16

FallbackPrograms == { LoopOf(3, "timing100") }

InitFallback == Created(FallbackPrograms)

\* Time passes between create() and start().
Idle == lastCall = "create" /\ Advance

StartOnce == lastCall = "create" /\ Start

\* The timer set by start() or by the previous loop() fires.
FallbackFrame ==
    /\ lastCall = "start"
    /\ now + FramePeriod - callTime <= Horizon
    /\ Frame(now + FramePeriod)

\* No timer is set: time passes and nothing runs.
Rest ==
    /\ lastCall = "start"
    /\ pending = <<>>
    /\ now + FramePeriod - callTime <= Horizon
    /\ now' = now + FramePeriod
    /\ lastStep' = "advance"
    /\ tickOutcome' = "none"
    /\ lastDelta' = 0
    /\ tickLog' = <<>>
    /\ cleared' = <<>>
    /\ UNCHANGED <<program, ctl, lastCall, callTime, tickedSinceCall, pausedSince,
                   pauseTime, solo, registered, delivered, calls, late, graphVars,
                   emitterVars>>

NextFallback ==
    \/ Idle
    \/ StartOnce
    \/ FallbackFrame
    \/ Rest

SpecFallback == InitFallback /\ [][NextFallback]_vars

\* ----------------------------------------------------------------- Graph
\* The edges of a Graph (src/Graph/index.ts).  An edge is a record [from, to];
\* the node names are arbitrary keys.  No listener is subscribed to the
\* graph, so its emit("newEdge", ...) calls nobody.
Nodes == {"a", "b", "c", "d"}
Edge(from, to) == [from |-> from, to |-> to]

\* this._edges.some((e) => e.from === from && e.to === to)
hasEdge(es, from, to) == \E i \in 1..Len(es) : es[i] = Edge(from, to)

\* this._edges.find(...): the position of the first edge that leaves
\* (forward) or enters (backward) currentKey, 0 when there is none.
find(es, currentKey, forward) ==
    LET hits == {i \in 1..Len(es) :
                    IF forward THEN es[i].from = currentKey
                               ELSE es[i].to = currentKey}
    IN  IF hits = {} THEN 0 ELSE CHOOSE i \in hits : \A j \in hits : i <= j

\* The while (true) loop of traverse.  It follows the first edge found at
\* every key; once it has taken more steps than there are edges it is on a
\* loop of first edges and never breaks (returns = FALSE).
RECURSIVE traverseFrom(_, _, _, _)
traverseFrom(es, currentKey, forward, visitedRoute) ==
    IF Len(visitedRoute) > Len(es)
    THEN [returns |-> FALSE, route |-> visitedRoute]
    ELSE IF find(es, currentKey, forward) = 0
    THEN [returns |-> TRUE, route |-> visitedRoute]
    ELSE traverseFrom(es,
                      IF forward THEN es[find(es, currentKey, forward)].to
                                 ELSE es[find(es, currentKey, forward)].from,
                      forward,
                      Append(visitedRoute,
                             IF forward THEN es[find(es, currentKey, forward)].to
                                        ELSE es[find(es, currentKey, forward)].from))

traverse(es, startKey, forward) == traverseFrom(es, startKey, forward, <<>>)

\* [...backward, from, to, ...forward]
fullRoute(es, from, to) ==
    Reverse(traverse(es, from, FALSE).route) \o <<from, to>>
        \o traverse(es, to, TRUE).route

\* hasConflictEdge(from, to): whether the route has a duplicate key; it does
\* not return when one of the traversals does not.
hasConflictEdge(es, from, to) ==
    [returns |-> traverse(es, from, FALSE).returns /\ traverse(es, to, TRUE).returns,
     value |-> \E i, j \in 1..Len(fullRoute(es, from, to)) :
                  i < j /\ fullRoute(es, from, to)[i] = fullRoute(es, from, to)[j]]

\* addEdge(from, to)
addEdge(es, from, to) ==
    IF hasEdge(es, from, to) THEN [edges |-> es, outcome |-> "present"]
    ELSE IF ~hasConflictEdge(es, from, to).returns
    THEN [edges |-> es, outcome |-> "hang"]
    ELSE IF hasConflictEdge(es, from, to).value
    THEN [edges |-> es, outcome |-> "conflict"]
    ELSE [edges |-> Append(es, Edge(from, to)), outcome |-> "added"]

\* The graph is used on its own: no Controller takes part.
InitGraph ==
    /\ Controller({NULL})
    /\ NoGraph
    /\ NoEmitter

\* A caller adds an edge; after a call that never returned there is no
\* further call.
AddEdge ==
    /\ outcome # "hang"
    /\ Len(edges) < MaxEdges
    /\ \E from \in Nodes, to \in Nodes :
          /\ edges' = addEdge(edges, from, to).edges
          /\ outcome' = addEdge(edges, from, to).outcome
    /\ UNCHANGED <<program, ctl, now, ghost, emitterVars>>

NextGraph == AddEdge

SpecGraph == InitGraph /\ [][NextGraph]_vars

\* ---------------------------------------------------------------- claims
Running == ~isPaused /\ raf # 0 /\ pending # <<>> /\ pending[Len(pending)] = raf

\* C1: after start(), whatever the state it was called in, the group holds its
\* initial values, the old coroutine is gone and the Controller is Running.
C1_StartMakesRunning ==
    lastStep = "start" => (values = InitialValues /\ gen = NULL /\ Running)

\* C2: at most one frame request of the Controller is pending at any time.
C2_SinglePendingFrame == Len(pending) <= 1

\* C3: from pause() until resume(), play() or restart(), a frame callback that
\* fires does not resume the coroutine and changes no value of the group.
C3_PausedFramesChangeNothing ==
    [][(pausedSince /\ lastStep' = "tick") =>
          /\ tickOutcome' = "skipped"
          /\ values' = values
          /\ gen' = (IF gen = NULL THEN materializeGenerator(program) ELSE gen)]_vars

C3_Witness ==
    /\ pausedSince
    /\ lastCall = "pause"
    /\ lastStep = "tick"
    /\ now > callTime
    /\ gen # NULL
    /\ gen.pc = "t1"
    /\ values # InitialValues

\* C4: pause() and resume() leave the suspended coroutine as it is, nothing
\* moves it while paused, and the first frame after resume() resumes it with
\* deltaTime = the time elapsed since resume() was called.
C4_ResumeContinuesWithoutPausedTime ==
    [][/\ (lastStep' \in {"pause", "resume"} => gen' = gen /\ values' = values)
       /\ (pausedSince /\ gen # NULL /\ lastStep' \in {"tick", "advance"} => gen' = gen)
       /\ (lastCall = "resume" /\ ~tickedSinceCall /\ lastStep' = "tick" =>
              /\ tickOutcome' # "skipped"
              /\ lastDelta' = now - callTime)]_vars

C4_Witness ==
    /\ lastCall = "resume"
    /\ pauseTime >= 0
    /\ pauseTime < callTime
    /\ callTime < now
    /\ lastStep = "tick"
    /\ tickOutcome = "yield"
    /\ lastDelta = now - callTime
    /\ gen.pc = "t1"
    /\ gen.current > gen.start

\* C5: stop() leaves every value at its initial value and no coroutine, and a
\* frame callback that fires afterwards changes no value.
C5_StopResetsAndStays ==
    [][/\ (lastStep' = "stop" => values' = InitialValues /\ gen' = NULL)
       /\ (lastCall = "stop" /\ lastStep' = "tick" =>
              /\ tickOutcome' = "skipped"
              /\ values' = values)]_vars

C5_Witness ==
    /\ lastCall = "stop"
    /\ lastStep = "tick"
    /\ now > callTime
    /\ values = InitialValues

\* C6: restart() leaves every value at its initial value and the Controller
\* Running with no coroutine, and the first frame after it creates a fresh
\* coroutine and resumes it.
C6_RestartRunsAfresh ==
    [][/\ (lastStep' = "restart" =>
              values' = InitialValues /\ gen' = NULL /\ Running')
       /\ (lastCall = "restart" /\ ~tickedSinceCall /\ lastStep' = "tick" =>
              /\ gen = NULL
              /\ tickOutcome' # "skipped")]_vars

C6_Witness ==
    /\ lastCall = "restart"
    /\ lastStep = "tick"
    /\ tickOutcome = "yield"
    /\ pauseTime = 0 - 1
    /\ gen # NULL
    /\ gen.pc = "delay"

\* C7: when a resumption reports completion or throws, the Controller has no
\* coroutine, is not Running and has no frame request pending.
C7_CompletionLeavesNothingScheduled ==
    (lastStep = "tick" /\ tickOutcome \in {"done", "throw"}) =>
        (gen = NULL /\ isPaused /\ pending = <<>>)

\* C8: when the Controller running timing(v, {to, duration}) reports
\* completion, v holds exactly `to`.
C8_TimingEndsExactlyAtTo ==
    (program.kind = "timing" /\ lastStep = "tick" /\ tickOutcome = "done") =>
        values[program.key] = Num(program.to)

C8_Witness ==
    /\ program.kind = "timing"
    /\ lastStep = "tick"
    /\ tickOutcome = "done"
    /\ lastDelta = 2
    /\ values[program.key] = Num(program.to)
    /\ values # InitialValues

\* C9: every frame in which the Controller resumes parallel(c1..cn) resumes
\* each child that had not completed exactly once, in declaration order.
LiveChildren(g) ==
    LET n == Len(Children(program))
    IN  SelectSeq([i \in 1..n |-> i],
                  LAMBDA i : g = NULL \/ g.pc = "start" \/ g.iterators[i].pc # "done")

C9_ParallelResumesEveryChildEachTick ==
    [][(program.kind = "parallel" /\ lastStep' = "tick"
            /\ tickOutcome' \in {"yield", "done"}) =>
          tickLog' = LiveChildren(gen)]_vars

\* C10: any(A, B) reports completion in exactly the frame in which the first
\* of A alone and B alone, driven by the same frames, has completed.
C10_AnyCompletesWithEarliestChild ==
    (program.kind = "any" /\ lastStep = "tick" /\ tickOutcome \in {"yield", "done"}) =>
        ((tickOutcome = "done") <=> (\E i \in 1..Len(solo) : solo[i].pc = "done"))

\* The generator g and, when g delegates to a combinator first, that combinator.
Nested(g) ==
    IF g = NULL THEN {}
    ELSE {g} \cup (IF g.kind = "chain" /\ Len(g.iterators) > 0
                   THEN {g.iterators[1]} ELSE {})

ChainInTurn(c) ==
    /\ \A k \in 1..(Len(c.iterators) - 1) :
          c.iterators[k + 1].pc # "start" => c.iterators[k].pc = "done"
    /\ c.pc # "start" =>
          (c.pc = "done" <=> c.iterators[Len(c.iterators)].pc = "done")
    /\ c.pc = "run" => c.iterators[c.idx].pc # "done"

\* C14: in chain(c1..cn) child k+1 is not started before child k has reported
\* completion, a child that has completed is never resumed again, and chain
\* completes when (and only when) its last child completes.
C14_ChainRunsChildrenInTurn ==
    [][ /\ \A c \in Nested(gen') : c.kind = "chain" => ChainInTurn(c)
        /\ (lastStep' = "tick" /\ program.kind = "chain" /\ gen # NULL) =>
              \A j \in 1..Len(tickLog') : gen.iterators[tickLog'[j]].pc # "done"
        /\ (lastStep' = "tick" /\ program.kind = "chain" /\ tickOutcome' = "done") =>
              /\ tickLog' # <<>>
              /\ tickLog'[Len(tickLog')] = Len(program.children) ]_vars

\* A resumption in which one child of the chain completed and the next one was
\* started and suspended.
C14_Witness ==
    /\ lastStep = "tick" /\ tickOutcome = "yield"
    /\ gen # NULL /\ gen.kind = "chain"
    /\ Len(tickLog) >= 2
    /\ gen.iterators[gen.idx - 1].pc = "done"
    /\ gen.iterators[gen.idx].pc \notin {"start", "done"}

\* The state of the wait(n) of the program inside generator g.
WaitIn(g) ==
    IF g.kind = "wait" THEN g
    ELSE LET w == CHOOSE i \in 1..Len(g.iterators) : g.iterators[i].kind = "wait"
         IN  g.iterators[w]

\* C17: what follows `yield* wait(n)` runs only after the deltaTime values
\* handed to the coroutine while it was suspended in the wait sum to at least
\* n, whatever the frame deltas (zero included) and Controller calls.
C17_WaitLastsAtLeastDuration ==
    [][ ( /\ lastStep' = "tick" /\ tickOutcome' \in {"yield", "done"}
          /\ \/ tickOutcome' = "done"
             \/ WaitIn(gen').pc = "done"
          /\ ~(gen # NULL /\ WaitIn(gen).pc = "done") )
        => /\ gen # NULL
           /\ WaitIn(gen).pc \in {"w0", "w1"}
           /\ delivered + lastDelta' >= WaitIn(gen).duration ]_vars

\* A wait(2) was passed in a frame after frames of 1 ms or less each.
C17_Witness ==
    /\ lastStep = "tick" /\ lastDelta = 1
    /\ gen # NULL /\ gen.kind = "chain"
    /\ WaitIn(gen).pc = "done" /\ WaitIn(gen).duration = 2
    /\ gen.iterators[gen.idx].kind = "yielder"
    /\ gen.iterators[gen.idx].pc # "done"

\* The generator a frame resumes: the one loop() creates when there is none.
Resumed == IF gen = NULL THEN materializeGenerator(program) ELSE gen

\* C15: sequence(delayMs, c1..cn) runs its children one at a time in order;
\* child k+1 starts only in a resumption that found child k already completed
\* and after at least delayMs of deltaTime was delivered since that
\* completion; there is no wait after the last child: the sequence completes
\* in the resumption in which the last child completes.
C15_SequenceWaitsBetweenChildren ==
    [][ (lastStep' = "tick" /\ tickOutcome' \in {"yield", "done"}) =>
        /\ Len(tickLog') <= 1
        /\ \A j \in 1..Len(tickLog') :
              LET k == tickLog'[j] IN
              /\ Resumed.iterators[k].pc # "done"
              /\ \A i \in 1..(k - 1) : Resumed.iterators[i].pc = "done"
              /\ (k > 1 /\ Resumed.iterators[k].pc = "start") =>
                    delivered + lastDelta' >= program.delayMs
        /\ tickOutcome' = "done" => tickLog' = <<Len(program.children)>>
        /\ gen' # NULL =>
              gen'.iterators[Len(gen'.iterators)].pc # "done" ]_vars

\* The second child of sequence(2, ...) was started by a frame of 1 ms.
C15_Witness ==
    /\ lastStep = "tick" /\ lastDelta = 1 /\ program.kind = "sequence"
    /\ program.delayMs = 2 /\ tickLog = <<2>> /\ tickOutcome = "yield"
    /\ gen.iterators[2].pc = "w0"

\* C16: loop(n, f) calls f exactly n times, with 0, 1, ..., n-1 in increasing
\* order, and calls f(i+1) only after the generator of f(i) has completed
\* (with the factory that animates x to i + 1, x is i + 1 when f(i+1) has
\* just been called).
C16_LoopCallsFactoryInOrder ==
    [][ (lastStep' = "tick" /\ tickOutcome' \in {"yield", "done"}) =>
        /\ calls' = [j \in 1..Len(calls') |-> j - 1]
        /\ Len(calls') <= program.iterations
        /\ tickOutcome' = "done" => Len(calls') = program.iterations
        /\ (program.factory = "timing" /\ tickLog' # <<>>
              /\ tickLog'[Len(tickLog')] > 0) =>
              values'["x"] = Num(tickLog'[Len(tickLog')]) ]_vars

\* loop(2, f) completed after f(0) and f(1), the second generator having
\* brought x to 2.
C16_Witness ==
    /\ lastStep = "tick" /\ tickOutcome = "done" /\ tickLog = <<>>
    /\ program = LoopOf(2, "timing")
    /\ calls = <<0, 1>> /\ values["x"] = Num(2)

\* C18: when the callback target of timing returns a truthy value from an
\* intermediate call, that same resumption makes no further intermediate
\* call, calls the callback exactly once more, with exactly `to`, and
\* completes the timing without suspending again.
C18_TruthyCallbackCancelsTiming ==
    [][ lastStep' = "tick" =>
        \A j \in 1..Len(tickLog') :
            (~tickLog'[j].final /\ tickLog'[j].ret) =>
                /\ Len(tickLog') = j + 1
                /\ tickLog'[j + 1].final
                /\ tickLog'[j + 1].val = Num(program.to)
                /\ tickOutcome' = "done"
                /\ gen' = NULL ]_vars

\* The callback returned truthy on a value strictly between from and to and
\* the timing ended in that frame, before its duration had run.
C18_Witness ==
    /\ lastStep = "tick" /\ tickOutcome = "done"
    /\ program.kind = "timingCallback"
    /\ Len(tickLog) = 2
    /\ tickLog[1].ret /\ ~tickLog[1].final
    /\ tickLog[1].val \notin {Num(program.from), Num(program.to)}
    /\ tickLog[2].final

\* C19: timing on a SharedValue target interpolates from config.from when the
\* caller supplies one, and from the target's value at the start of the
\* coroutine only when from is omitted: the first write of the loop, made at
\* progress 0, stores the supplied from.
C19_TimingStartsAtConfigFrom ==
    [][ ( /\ lastStep' = "tick" /\ tickOutcome' = "yield"
          /\ gen # NULL /\ gen.pc = "t0" /\ gen'.pc = "t1" )
        => values'[program.key] =
             (IF "from" \in DOMAIN program THEN Num(program.from) ELSE gen.from) ]_vars

\* parallel returns only from a round in which every child reported done, and
\* does not start another round after such a round.
ParallelEndsWithItsChildren(c) ==
    /\ c.pc = "frame" => \E i \in 1..Len(c.iterators) : c.iterators[i].pc # "done"
    /\ c.pc = "done" => \A i \in 1..Len(c.iterators) : c.iterators[i].pc = "done"

C13_StaggerStartsChildrenOnTime ==
    (program.kind = "stagger" /\ gen # NULL /\ late > Slack) =>
        gen.iterators[Len(gen.iterators)].pc \in {"child", "done"}

\* C20: clear() (also when stop() or restart() calls it) first resets the
\* state group to its initial values, then invokes every callback registered
\* through onClear since the previous clear exactly once, the last registered
\* first, and leaves the cleanup stack empty: a clear() that immediately
\* follows invokes no callback.
C20_ClearInvokesCallbacksLastFirst ==
    [][ lastStep' \in {"clear", "stop", "restart"} =>
        /\ cleared' = [i \in 1..Len(registered) |->
                          [cb |-> Reverse(registered)[i], seen |-> InitialValues]]
        /\ clearFunctions' = <<>>
        /\ lastStep \in {"clear", "stop", "restart"} => cleared' = <<>> ]_vars

\* clear() invoked b and then a, registered in the order a, b, after the
\* timing of the animation had brought x to 2.
C20_Witness ==
    /\ lastStep = "clear"
    /\ Len(cleared) = 2 /\ cleared[1].cb = "b" /\ cleared[2].cb = "a"
    /\ gen # NULL /\ gen.iterators[1].kind = "timing" /\ gen.iterators[1].pc = "done"
    /\ values = InitialValues /\ clearFunctions = <<>>

\* The any(...) a chain delegates to first, in the generator a frame resumes
\* and in the generator the frame leaves.
AnyBefore == Resumed.iterators[1]
AnyAfter == gen'.iterators[1]

\* C11: when a child of any(...) reports completion, any completes in that
\* same resumption, which advances no other child; afterwards no child is
\* ever advanced again and none is sent return() or throw(), so the losers
\* stay suspended where they were; the cleanup callbacks registered through
\* onClear are invoked by no frame, only when the Controller is cleared.
C11_AnyAbandonsLosers ==
    [][ /\ (lastStep' = "tick" /\ gen' # NULL) =>
              /\ AnyAfter.pc # "done" =>
                    \A i \in 1..Len(AnyAfter.iterators) :
                        AnyAfter.iterators[i].pc # "done"
              /\ (AnyAfter.pc = "done" /\ AnyBefore.pc # "done") =>
                    \E w \in 1..Len(AnyAfter.iterators) :
                        /\ AnyAfter.iterators[w].pc = "done"
                        /\ \A i \in 1..Len(AnyAfter.iterators) :
                              i # w => AnyAfter.iterators[i] = AnyBefore.iterators[i]
              /\ AnyBefore.pc = "done" => AnyAfter = AnyBefore
        /\ lastStep' = "tick" =>
              /\ cleared' = <<>>
              /\ Len(clearFunctions') >= Len(clearFunctions)
              /\ \A i \in 1..Len(clearFunctions) :
                    clearFunctions'[Len(clearFunctions') - Len(clearFunctions) + i]
                        = clearFunctions[i]
        /\ lastStep' \in {"clear", "stop", "restart"} =>
              {cleared'[i].cb : i \in 1..Len(cleared')}
                  = {clearFunctions[i] : i \in 1..Len(clearFunctions)} ]_vars

\* any(a, b) has completed with b; a, which registered a cleanup callback,
\* is still suspended in its body; the chain has gone on since, and the
\* callback is still on the stack.
C11_Witness ==
    /\ lastStep = "tick" /\ gen # NULL /\ gen.idx = 2
    /\ gen.iterators[2].pc = "run"
    /\ gen.iterators[1].pc = "done"
    /\ gen.iterators[1].iterators[2].pc = "done"
    /\ gen.iterators[1].iterators[1].pc = "run"
    /\ "a" \in {clearFunctions[i] : i \in 1..Len(clearFunctions)}

\* Whether the edges hold a directed cycle: some key reaches itself.
HasCycle(es) ==
    \E n \in Nodes :
        LET reach[i \in 0..Len(es)] ==
                IF i = 0 THEN {es[k].to : k \in {j \in 1..Len(es) : es[j].from = n}}
                ELSE reach[i - 1] \cup
                     {es[k].to : k \in {j \in 1..Len(es) : es[j].from \in reach[i - 1]}}
        IN  n \in reach[Len(es)]

\* C30: after any sequence of addEdge calls the stored edges hold no directed
\* cycle (an addEdge that would close one throws and adds nothing).
C30_AddEdgeKeepsGraphAcyclic == ~HasCycle(edges)

\* C28: resume() or play() called while the Controller holds no coroutine
\* resets no value of the group and requests a frame; the next frame
\* callback then creates a fresh coroutine and resumes it, and the values are
\* still not reset.
C28_ResumeWithoutCoroutineStartsAfresh ==
    [][/\ (lastStep' \in {"resume", "play"} /\ gen = NULL =>
              /\ values' = values
              /\ gen' = NULL
              /\ Running')
       /\ (lastCall \in {"resume", "play"} /\ ~tickedSinceCall /\ gen = NULL
              /\ lastStep' = "tick" =>
              /\ tickOutcome' # "skipped"
              /\ values' = values
              /\ gen' = next(materializeGenerator(program),
                             [deltaTime |-> lastDelta'], values).co)]_vars

\* A timing that ran to its end left x at 3; resume() was then called and
\* the frame after it began a fresh timing, x still being 3.
C28_Witness ==
    /\ lastCall \in {"resume", "play"}
    /\ lastStep = "tick"
    /\ tickOutcome = "yield"
    /\ program = Timing("x", 3, 0, 2)
    /\ values["x"] = Num(3)
    /\ gen # NULL
    /\ gen.pc = "delay"

\* C27 as stated: with state {v: 0} and loop(3, i => timing(state.v, {to: i + 1,
\* duration: 100})) driven by the 16 ms fallback timer, 400 ms after start()
\* the value is exactly 3 and the loop body has been invoked exactly 3 times.
C27_LoopEndsWithin400 ==
    (lastCall = "start" /\ now - callTime = 400) =>
        (values["x"] = Num(3) /\ calls = <<0, 1, 2>>)

\* C27 as amended: the same 500 ms after start(), that is once every timer
\* due within 500 ms of start() has fired.
C27_LoopEndsWithin500 ==
    (lastCall = "start" /\ now - callTime <= 500
        /\ now - callTime + FramePeriod > 500) =>
        (values["x"] = Num(3) /\ calls = <<0, 1, 2>> /\ gen = NULL)

\* 496 ms after start() the loop has completed and no timer is set.
C27_Witness ==
    /\ lastCall = "start"
    /\ now - callTime = 496
    /\ pending = <<>>
    /\ isPaused
    /\ values["x"] = Num(3)
    /\ calls = <<0, 1, 2>>

\* --------------------------------------------------------------- SharedValue
\* The entries of a log h that come from emitter e.
From(h, e) == SelectSeq(h, LAMBDA x : x.em = e)

\* What the listeners of child k hear of one notification round with value v.
Round(k, event, v) ==
    [i \in 1..Len(Listeners(k, event)) |->
        [em |-> k, event |-> event, id |-> Listeners(k, event)[i].callback.id,
         args |-> <<v>>]]

\* The step assigns child op'.key a value, through the setter or clear().
Assigns == op'.name \in {"assign", "clear"}

\* C21: assigning SharedValue.value = v notifies the "value" listeners and
\* then the "change" listeners, each with v, when String(v) differs from
\* String(current value), and notifies no listener otherwise; clear() does
\* the same with the initial value.
C21_AssignNotifiesValueThenChange ==
    [][Assigns =>
        From(heard', op'.key) =
            IF String(op'.value) # String(stored[op'.key])
            THEN Round(op'.key, "value", op'.value)
                 \o Round(op'.key, "change", op'.value)
            ELSE <<>>]_vars

\* An assignment was heard by a "value" and by a "change" listener of the child.
C21_Witness ==
    /\ op.name = "assign"
    /\ Len(From(heard, op.key)) = 2
    /\ heard[1].event = "value"

\* C29: an assignment of a value whose String() form equals that of the current
\* value leaves the stored value as it was.
C29_SameTextKeepsStoredValue ==
    [][(Assigns /\ String(op'.value) = String(stored[op'.key]))
        => stored' = stored]_vars

\* The string "1" was assigned while the number 1 was stored, and the number
\* is still stored.
C29_Witness ==
    /\ op.name = "assign"
    /\ op.value = Str(1)
    /\ stored[op.key] = Num(1)

\* -------------------------------------------------------------- SharedValues
GroupNotice(x) == x.em = Group /\ x.event \in Notifications
ChildValue(x) == x.em \in Keys /\ x.event = "value"

\* The log E of emit calls pairs every "value" of a child with the group's
\* "value" and "change", and holds no other "value" or "change" of the group.
Forwarded(E) ==
    \A p \in 1..Len(E) :
        /\ ChildValue(E[p]) =>
              /\ p + 2 <= Len(E)
              /\ E[p + 1].em = Group /\ E[p + 1].event = "value"
              /\ E[p + 1].args = <<E[p].em, E[p].args[1]>>
              /\ E[p + 2].em = Group /\ E[p + 2].event = "change"
              /\ E[p + 2].args = <<E[p + 2].at>>
              /\ E[p + 2].at[E[p].em] = E[p].args[1]
        /\ (GroupNotice(E[p]) /\ E[p].event = "value") =>
              p > 1 /\ ChildValue(E[p - 1])
        /\ (GroupNotice(E[p]) /\ E[p].event = "change") =>
              p > 2 /\ ChildValue(E[p - 2])

\* C22: for an initialized group, every "value" a child emits produces exactly
\* one group "value"(key, value) followed by exactly one group
\* "change"(snapshot of every child at that moment), and the group emits
\* "value" or "change" at no other time.
C22_GroupForwardsEveryChildValue ==
    [][(phase = "initialized" \/ phase = "revived") => Forwarded(emitted')]_vars

\* C23: after destroy() followed by initialize(), a change of a child value
\* produces the group's "value" and "change" notifications.
C23_InitializeReestablishesForwarding ==
    [][(phase = "revived" /\ \E p \in 1..Len(emitted') : ChildValue(emitted'[p]))
        => \A event \in Notifications :
              \E p \in 1..Len(emitted') :
                  emitted'[p].em = Group /\ emitted'[p].event = event]_vars

\* C24: after destroy(), no change of a child value produces a group "value" or
\* "change", and a second destroy() changes nothing further and does not
\* throw.
C24_DestroyStopsForwardingAndIsIdempotent ==
    [][phase = "destroyed" =>
        /\ \A p \in 1..Len(emitted') : ~GroupNotice(emitted'[p])
        /\ op'.name = "destroy" =>
              /\ ~threw'
              /\ <<subscriptions', oneTimeEvents', prepared', stored'>>
                 = <<subscriptions, oneTimeEvents, prepared, stored>>]_vars

\* A child of the destroyed group changed value before a listener of the group.
C24_Witness ==
    /\ phase = "destroyed"
    /\ op.name = "assign"
    /\ Len(emitted) = 2
    /\ Listeners(Group, "value") # <<>>

\* -------------------------------------------------------------- EventEmitter
\* The callers' functions a log h ran, in order.
Ran(h) == [i \in 1..Len(h) |-> h[i].id]

\* C25: emit(event, ...args) invokes, before it returns, every listener
\* subscribed to the event when emit is called, exactly once each and in
\* subscription order, whatever the listeners do during the dispatch.
C25_EmitInvokesEverySubscribedListener ==
    [][(op'.name = "emit" /\ ~threw')
        => Ran(heard') = [i \in 1..Len(Greeters) |-> Inner(Greeters[i].callback).id]]_vars

\* C26: after once(event, cb) followed by offOnce(event, cb), a later
\* emit(event, ...) does not invoke cb.
C26_OffOnceRemovesOnceListener ==
    [][op'.name = "emit"
        => \A i \in 1..Len(heard') : \A cb \in revoked : heard'[i].id # cb.id]_vars

====
